---- MODULE Spec2Model ----
(***************************************************************************)
(* Fixed-point software PLL (pll_q30.c / pll_q30.h): state, init, step and *)
(* the HDL-I/O wrapper, modelled bit-exactly on 32-bit words.              *)
(*                                                                         *)
(* TLC integers are 32 bits wide, so every int64_t intermediate of the C   *)
(* code is carried as a two-limb value [hi, lo] with value hi*2^15 + lo    *)
(* and 0 <= lo < 2^15.                                                     *)
(***************************************************************************)
EXTENDS Integers, Sequences, FiniteSets, TLC

\* ---------------------------------------------------------------- bounds
\* The sample source is silent (x = 0) for the first `quiet` calls after an
\* init and arbitrary (drawn from Samples) for the next Free calls.
QuietShort == 24
QuietMid   == 199
QuietLong  == 805
Free       == 3

QuietLens == {QuietShort, QuietMid, QuietLong}

\* ------------------------------------------------------ program constants
INT32_MAX == 2147483647
INT32_MIN == -2147483647 - 1
SINE_N    == 1024
FS_HZ     == 40000
F50_Q25   == 1677721600          \* (int32_t)(50 << 25) = 0x64000000
THETA_MASK == 1073741823         \* 0x3FFFFFFF
LIMB      == 2^15                \* radix of the int64 limbs

\* Input samples (Q22) offered to the step functions.
Samples == {0, 1024, -65536, 4194304, -4194304, 8388608, -8388608,
            INT32_MAX, INT32_MIN}

\* Gain pairs <<kp_q30, ki_q30>>; the first is the pair used by main().
GainPairs == { <<536870912, 1342177>>, <<536870912, 0>>,
               <<INT32_MAX, INT32_MAX>>, <<INT32_MIN, INT32_MIN>> }

\* Outcomes admitted for signed overflow, which C leaves undefined:
\* two's-complement wrap-around (what the shipped build does) or clamping.
UBModes == {"wrap", "clamp"}

\* ------------------------------------------------------------ int64 limbs
\* Normalise hi*2^15 + raw into limb form.
W(hi, raw) == [hi |-> hi + (raw \div LIMB), lo |-> raw % LIMB]

\* (int64_t)a for a 32-bit a.
I64(a) == [hi |-> a \div LIMB, lo |-> a % LIMB]

\* int64 addition.
Add64(x, y) == W(x.hi + y.hi, x.lo + y.lo)

\* ---------- fixed-point helpers ----------
sat32(x) ==
    IF x.hi > 65535 THEN INT32_MAX
    ELSE IF x.hi < -65536 THEN INT32_MIN
    ELSE x.hi * LIMB + x.lo

\* (int32_t)x for an int64 x: keep the low 32 bits.
Cast32(x) ==
    LET h == x.hi % 131072
    IN  (IF h >= 65536 THEN h - 131072 ELSE h) * LIMB + x.lo

\* ((int64_t)a * (int64_t)b) >> 30, arithmetic shift, as an int64.
\* The 32-bit operands are split into 11-bit limbs a2:a1:a0 (a2 signed);
\* c0..c4 are the columns of the schoolbook product.
MulShr30(a, b) ==
    LET a0 == a % 2048
        a1 == (a \div 2048) % 2048
        a2 == a \div 4194304
        b0 == b % 2048
        b1 == (b \div 2048) % 2048
        b2 == b \div 4194304
        c0 == a0 * b0
        c1 == a0 * b1 + a1 * b0
        c2 == a0 * b2 + a1 * b1 + a2 * b0
        c3 == a1 * b2 + a2 * b1
        c4 == a2 * b2
        t1 == c1 + (c0 \div 2048)
        t2 == c2 + (t1 \div 2048)
    IN  W(c4 \div 2, (c4 % 2) * 16384 + c3 * 8 + (t2 \div 256))

\* Q2.30 * Q2.30 -> Q2.30
mul_q30(a, b) == sat32(MulShr30(a, b))

\* (int32_t)(x << 8): exact when x * 256 fits; on signed overflow the
\* result is undefined in C and is one of the UBModes outcomes.
Shl8(x, ub) ==
    IF x >= -8388608 /\ x < 8388608 THEN x * 256
    ELSE IF ub = "wrap"
         THEN LET l == x % 16777216
              IN  (IF l >= 8388608 THEN l - 16777216 ELSE l) * 256
         ELSE IF x > 0 THEN INT32_MAX ELSE INT32_MIN

\* -a on int32: undefined for INT32_MIN.
Neg32(a, ub) ==
    IF a # INT32_MIN THEN -a
    ELSE IF ub = "wrap" THEN INT32_MIN ELSE INT32_MAX

\* a + b on int32 (no widening): undefined on overflow.
AddI32(a, b, ub) ==
    LET s == Add64(I64(a), I64(b))
    IN  IF ub = "wrap" THEN Cast32(s) ELSE sat32(s)

\* (int64_t)u >> 5
Shr5(u) == I64(u \div 32)

\* ((int64_t)f) << 5
Shl5(f) == W(f \div 1024, (f % 1024) * 32)

\* int64 / FS_HZ with C's truncation toward zero.
DivFs(n) ==
    LET r1 == (n.hi % FS_HZ) * LIMB + n.lo
        fl == (n.hi \div FS_HZ) * LIMB + (r1 \div FS_HZ)
    IN  IF n.hi < 0 /\ r1 % FS_HZ # 0 THEN fl + 1 ELSE fl

\* ------------------------------------------------------------- sine table
\* sine_q230[i + 1] is entry i of the 1024-sample Q2.30 sine table
\* (round(2^30 * sin(2*pi*i/1024)); entry 256 is +1.0, entry 768 is -1.0).
sine_q230 == <<
    0, 6588356, 13176464, 19764076, 26350943, 32936819, 39521455, 46104602,
    52686014, 59265442, 65842639, 72417357, 78989349, 85558366, 92124163, 98686491,
    105245103, 111799753, 118350194, 124896179, 131437462, 137973796, 144504935, 151030634,
    157550647, 164064728, 170572633, 177074115, 183568930, 190056834, 196537583, 203010932,
    209476638, 215934457, 222384147, 228825464, 235258165, 241682010, 248096755, 254502159,
    260897982, 267283981, 273659918, 280025552, 286380643, 292724951, 299058239, 305380268,
    311690799, 317989595, 324276419, 330551034, 336813204, 343062693, 349299266, 355522689,
    361732726, 367929144, 374111709, 380280190, 386434353, 392573967, 398698801, 404808624,
    410903207, 416982319, 423045732, 429093217, 435124548, 441139496, 447137835, 453119340,
    459083786, 465030947, 470960600, 476872522, 482766489, 488642281, 494499676, 500338453,
    506158392, 511959275, 517740883, 523502998, 529245404, 534967884, 540670223, 546352205,
    552013618, 557654248, 563273883, 568872310, 574449320, 580004702, 585538248, 591049748,
    596538995, 602005783, 607449906, 612871159, 618269338, 623644239, 628995660, 634323400,
    639627258, 644907034, 650162530, 655393548, 660599890, 665781362, 670937767, 676068911,
    681174602, 686254647, 691308855, 696337036, 701339000, 706314559, 711263525, 716185713,
    721080937, 725949013, 730789757, 735602987, 740388522, 745146182, 749875788, 754577161,
    759250125, 763894504, 768510122, 773096806, 777654384, 782182683, 786681534, 791150767,
    795590213, 799999706, 804379079, 808728167, 813046808, 817334838, 821592095, 825818421,
    830013654, 834177638, 838310216, 842411232, 846480531, 850517961, 854523370, 858496606,
    862437520, 866345964, 870221790, 874064853, 877875009, 881652112, 885396022, 889106597,
    892783698, 896427186, 900036924, 903612776, 907154608, 910662286, 914135678, 917574653,
    920979082, 924348837, 927683790, 930983817, 934248793, 937478595, 940673101, 943832191,
    946955747, 950043650, 953095785, 956112036, 959092290, 962036435, 964944360, 967815955,
    970651112, 973449725, 976211688, 978936898, 981625251, 984276646, 986890984, 989468165,
    992008094, 994510675, 996975812, 999403415, 1001793390, 1004145648, 1006460100, 1008736660,
    1010975242, 1013175761, 1015338134, 1017462281, 1019548121, 1021595575, 1023604567, 1025575020,
    1027506862, 1029400018, 1031254418, 1033069992, 1034846671, 1036584389, 1038283080, 1039942680,
    1041563127, 1043144360, 1044686319, 1046188946, 1047652185, 1049075980, 1050460278, 1051805027,
    1053110176, 1054375676, 1055601479, 1056787540, 1057933813, 1059040255, 1060106826, 1061133483,
    1062120190, 1063066909, 1063973603, 1064840240, 1065666786, 1066453210, 1067199483, 1067905576,
    1068571464, 1069197120, 1069782521, 1070327646, 1070832474, 1071296985, 1071721163, 1072104991,
    1072448455, 1072751542, 1073014240, 1073236540, 1073418433, 1073559913, 1073660973, 1073721611,
    1073741824, 1073721611, 1073660973, 1073559913, 1073418433, 1073236540, 1073014240, 1072751542,
    1072448455, 1072104991, 1071721163, 1071296985, 1070832474, 1070327646, 1069782521, 1069197120,
    1068571464, 1067905576, 1067199483, 1066453210, 1065666786, 1064840240, 1063973603, 1063066909,
    1062120190, 1061133483, 1060106826, 1059040255, 1057933813, 1056787540, 1055601479, 1054375676,
    1053110176, 1051805027, 1050460278, 1049075980, 1047652185, 1046188946, 1044686319, 1043144360,
    1041563127, 1039942680, 1038283080, 1036584389, 1034846671, 1033069992, 1031254418, 1029400018,
    1027506862, 1025575020, 1023604567, 1021595575, 1019548121, 1017462281, 1015338134, 1013175761,
    1010975242, 1008736660, 1006460100, 1004145648, 1001793390, 999403415, 996975812, 994510675,
    992008094, 989468165, 986890984, 984276646, 981625251, 978936898, 976211688, 973449725,
    970651112, 967815955, 964944360, 962036435, 959092290, 956112036, 953095785, 950043650,
    946955747, 943832191, 940673101, 937478595, 934248793, 930983817, 927683790, 924348837,
    920979082, 917574653, 914135678, 910662286, 907154608, 903612776, 900036924, 896427186,
    892783698, 889106597, 885396022, 881652112, 877875009, 874064853, 870221790, 866345964,
    862437520, 858496606, 854523370, 850517961, 846480531, 842411232, 838310216, 834177638,
    830013654, 825818421, 821592095, 817334838, 813046808, 808728167, 804379079, 799999706,
    795590213, 791150767, 786681534, 782182683, 777654384, 773096806, 768510122, 763894504,
    759250125, 754577161, 749875788, 745146182, 740388522, 735602987, 730789757, 725949013,
    721080937, 716185713, 711263525, 706314559, 701339000, 696337036, 691308855, 686254647,
    681174602, 676068911, 670937767, 665781362, 660599890, 655393548, 650162530, 644907034,
    639627258, 634323400, 628995660, 623644239, 618269338, 612871159, 607449906, 602005783,
    596538995, 591049748, 585538248, 580004702, 574449320, 568872310, 563273883, 557654248,
    552013618, 546352205, 540670223, 534967884, 529245404, 523502998, 517740883, 511959275,
    506158392, 500338453, 494499676, 488642281, 482766489, 476872522, 470960600, 465030947,
    459083786, 453119340, 447137835, 441139496, 435124548, 429093217, 423045732, 416982319,
    410903207, 404808624, 398698801, 392573967, 386434353, 380280190, 374111709, 367929144,
    361732726, 355522689, 349299266, 343062693, 336813204, 330551034, 324276419, 317989595,
    311690799, 305380268, 299058239, 292724951, 286380643, 280025552, 273659918, 267283981,
    260897982, 254502159, 248096755, 241682010, 235258165, 228825464, 222384147, 215934457,
    209476638, 203010932, 196537583, 190056834, 183568930, 177074115, 170572633, 164064728,
    157550647, 151030634, 144504935, 137973796, 131437462, 124896179, 118350194, 111799753,
    105245103, 98686491, 92124163, 85558366, 78989349, 72417357, 65842639, 59265442,
    52686014, 46104602, 39521455, 32936819, 26350943, 19764076, 13176464, 6588356,
    0, -6588356, -13176464, -19764076, -26350943, -32936819, -39521455, -46104602,
    -52686014, -59265442, -65842639, -72417357, -78989349, -85558366, -92124163, -98686491,
    -105245103, -111799753, -118350194, -124896179, -131437462, -137973796, -144504935, -151030634,
    -157550647, -164064728, -170572633, -177074115, -183568930, -190056834, -196537583, -203010932,
    -209476638, -215934457, -222384147, -228825464, -235258165, -241682010, -248096755, -254502159,
    -260897982, -267283981, -273659918, -280025552, -286380643, -292724951, -299058239, -305380268,
    -311690799, -317989595, -324276419, -330551034, -336813204, -343062693, -349299266, -355522689,
    -361732726, -367929144, -374111709, -380280190, -386434353, -392573967, -398698801, -404808624,
    -410903207, -416982319, -423045732, -429093217, -435124548, -441139496, -447137835, -453119340,
    -459083786, -465030947, -470960600, -476872522, -482766489, -488642281, -494499676, -500338453,
    -506158392, -511959275, -517740883, -523502998, -529245404, -534967884, -540670223, -546352205,
    -552013618, -557654248, -563273883, -568872310, -574449320, -580004702, -585538248, -591049748,
    -596538995, -602005783, -607449906, -612871159, -618269338, -623644239, -628995660, -634323400,
    -639627258, -644907034, -650162530, -655393548, -660599890, -665781362, -670937767, -676068911,
    -681174602, -686254647, -691308855, -696337036, -701339000, -706314559, -711263525, -716185713,
    -721080937, -725949013, -730789757, -735602987, -740388522, -745146182, -749875788, -754577161,
    -759250125, -763894504, -768510122, -773096806, -777654384, -782182683, -786681534, -791150767,
    -795590213, -799999706, -804379079, -808728167, -813046808, -817334838, -821592095, -825818421,
    -830013654, -834177638, -838310216, -842411232, -846480531, -850517961, -854523370, -858496606,
    -862437520, -866345964, -870221790, -874064853, -877875009, -881652112, -885396022, -889106597,
    -892783698, -896427186, -900036924, -903612776, -907154608, -910662286, -914135678, -917574653,
    -920979082, -924348837, -927683790, -930983817, -934248793, -937478595, -940673101, -943832191,
    -946955747, -950043650, -953095785, -956112036, -959092290, -962036435, -964944360, -967815955,
    -970651112, -973449725, -976211688, -978936898, -981625251, -984276646, -986890984, -989468165,
    -992008094, -994510675, -996975812, -999403415, -1001793390, -1004145648, -1006460100, -1008736660,
    -1010975242, -1013175761, -1015338134, -1017462281, -1019548121, -1021595575, -1023604567, -1025575020,
    -1027506862, -1029400018, -1031254418, -1033069992, -1034846671, -1036584389, -1038283080, -1039942680,
    -1041563127, -1043144360, -1044686319, -1046188946, -1047652185, -1049075980, -1050460278, -1051805027,
    -1053110176, -1054375676, -1055601479, -1056787540, -1057933813, -1059040255, -1060106826, -1061133483,
    -1062120190, -1063066909, -1063973603, -1064840240, -1065666786, -1066453210, -1067199483, -1067905576,
    -1068571464, -1069197120, -1069782521, -1070327646, -1070832474, -1071296985, -1071721163, -1072104991,
    -1072448455, -1072751542, -1073014240, -1073236540, -1073418433, -1073559913, -1073660973, -1073721611,
    -1073741824, -1073721611, -1073660973, -1073559913, -1073418433, -1073236540, -1073014240, -1072751542,
    -1072448455, -1072104991, -1071721163, -1071296985, -1070832474, -1070327646, -1069782521, -1069197120,
    -1068571464, -1067905576, -1067199483, -1066453210, -1065666786, -1064840240, -1063973603, -1063066909,
    -1062120190, -1061133483, -1060106826, -1059040255, -1057933813, -1056787540, -1055601479, -1054375676,
    -1053110176, -1051805027, -1050460278, -1049075980, -1047652185, -1046188946, -1044686319, -1043144360,
    -1041563127, -1039942680, -1038283080, -1036584389, -1034846671, -1033069992, -1031254418, -1029400018,
    -1027506862, -1025575020, -1023604567, -1021595575, -1019548121, -1017462281, -1015338134, -1013175761,
    -1010975242, -1008736660, -1006460100, -1004145648, -1001793390, -999403415, -996975812, -994510675,
    -992008094, -989468165, -986890984, -984276646, -981625251, -978936898, -976211688, -973449725,
    -970651112, -967815955, -964944360, -962036435, -959092290, -956112036, -953095785, -950043650,
    -946955747, -943832191, -940673101, -937478595, -934248793, -930983817, -927683790, -924348837,
    -920979082, -917574653, -914135678, -910662286, -907154608, -903612776, -900036924, -896427186,
    -892783698, -889106597, -885396022, -881652112, -877875009, -874064853, -870221790, -866345964,
    -862437520, -858496606, -854523370, -850517961, -846480531, -842411232, -838310216, -834177638,
    -830013654, -825818421, -821592095, -817334838, -813046808, -808728167, -804379079, -799999706,
    -795590213, -791150767, -786681534, -782182683, -777654384, -773096806, -768510122, -763894504,
    -759250125, -754577161, -749875788, -745146182, -740388522, -735602987, -730789757, -725949013,
    -721080937, -716185713, -711263525, -706314559, -701339000, -696337036, -691308855, -686254647,
    -681174602, -676068911, -670937767, -665781362, -660599890, -655393548, -650162530, -644907034,
    -639627258, -634323400, -628995660, -623644239, -618269338, -612871159, -607449906, -602005783,
    -596538995, -591049748, -585538248, -580004702, -574449320, -568872310, -563273883, -557654248,
    -552013618, -546352205, -540670223, -534967884, -529245404, -523502998, -517740883, -511959275,
    -506158392, -500338453, -494499676, -488642281, -482766489, -476872522, -470960600, -465030947,
    -459083786, -453119340, -447137835, -441139496, -435124548, -429093217, -423045732, -416982319,
    -410903207, -404808624, -398698801, -392573967, -386434353, -380280190, -374111709, -367929144,
    -361732726, -355522689, -349299266, -343062693, -336813204, -330551034, -324276419, -317989595,
    -311690799, -305380268, -299058239, -292724951, -286380643, -280025552, -273659918, -267283981,
    -260897982, -254502159, -248096755, -241682010, -235258165, -228825464, -222384147, -215934457,
    -209476638, -203010932, -196537583, -190056834, -183568930, -177074115, -170572633, -164064728,
    -157550647, -151030634, -144504935, -137973796, -131437462, -124896179, -118350194, -111799753,
    -105245103, -98686491, -92124163, -85558366, -78989349, -72417357, -65842639, -59265442,
    -52686014, -46104602, -39521455, -32936819, -26350943, -19764076, -13176464, -6588356
>>

\* theta_q30 in [0,1) turn (Q30). Use top 10 bits for 1024-LUT.
sincos_eighth_turn(theta_q30) ==
    LET idx == (theta_q30 \div 1048576) % SINE_N
    IN  [s |-> sine_q230[idx + 1],
         c |-> sine_q230[((idx + 128) % SINE_N) + 1]]

sincos_from_theta_turn_q30(theta_q30) ==
    LET idx == (theta_q30 \div 1048576) % SINE_N
    IN  [s |-> sine_q230[idx + 1],
         c |-> sine_q230[((idx + 256) % SINE_N) + 1]]

\* ------------------------------------------------------------------ state
VARIABLES
    st,      \* the pll_q30_state_t driven by the code in pll_q30.c
    rc,      \* a second state driven in lockstep by the reciprocal-multiply
             \* variant of the step (same gains, same samples)
    inited,  \* pll_q30_init has been called on st
    nsteps,  \* pll_q30_step calls since the last init
    quiet,   \* length of the silent prefix of the sample source
    tr,      \* record of the last call: arguments, intermediates, result
    hist     \* history since the last init

vars == <<st, rc, inited, nsteps, quiet, tr, hist>>

\* Contents of an uninitialised pll_q30_state_t (indeterminate in C).
Garbage == {
    [kp_q30 |-> 0, ki_q30 |-> 0, theta_q30 |-> 0, integrator_q30 |-> 0,
     sin_q30 |-> 0, cos_q30 |-> 0, out_f_q25 |-> 0, delta_f_q25 |-> 0],
    [kp_q30 |-> -1, ki_q30 |-> 7, theta_q30 |-> 2147483647,
     integrator_q30 |-> INT32_MIN, sin_q30 |-> 5, cos_q30 |-> -5,
     out_f_q25 |-> -3, delta_f_q25 |-> 9] }

NoCall == [op |-> "none", x |-> 0, xs |-> 0, x_q30 |-> 0, m |-> 0,
           qerr |-> 0, p |-> 0, inc |-> 0, u |-> 0, phase_inc |-> 0,
           theta0 |-> 0, int0 |-> 0, kp |-> 0, ki |-> 0, ret |-> 0,
           dirty |-> FALSE]

\* -------------------------------------------------------------- pll_q30_init
\* The state left by pll_q30_init(st, kp_q30, ki_q30) when *st held s:
\* *st = {0}, then the field assignments.
ZeroState == [kp_q30 |-> 0, ki_q30 |-> 0, theta_q30 |-> 0,
              integrator_q30 |-> 0, sin_q30 |-> 0, cos_q30 |-> 0,
              out_f_q25 |-> 0, delta_f_q25 |-> 0]

init_state_keep(s, kp_q30, ki_q30) ==
    [s EXCEPT !.kp_q30 = kp_q30, !.ki_q30 = ki_q30, !.theta_q30 = 0,
              !.out_f_q25 = F50_Q25, !.delta_f_q25 = 0]

init_state(s, kp_q30, ki_q30) ==
    LET z == [f \in DOMAIN s |-> ZeroState[f]]
    IN  [z EXCEPT !.kp_q30 = kp_q30, !.ki_q30 = ki_q30,
                  !.theta_q30 = 0, !.integrator_q30 = 0,
                  !.out_f_q25 = F50_Q25, !.delta_f_q25 = 0]

\* -------------------------------------------------------------- pll_q30_step
\* Step 4, integrator: sat32((int64_t)integrator + (int64_t)mul_q30(ki, qerr)).
pi_integrate_wrap(integrator_q30, inc_q30) ==
    Cast32(Add64(I64(integrator_q30), I64(inc_q30)))

pi_integrate(integrator_q30, inc_q30) ==
    sat32(Add64(I64(integrator_q30), I64(inc_q30)))

\* Step 4, output: u = sat32((int64_t)p + (int64_t)integrator).
pi_output(p_q30, integrator_q30) ==
    sat32(Add64(I64(p_q30), I64(integrator_q30)))

\* Step 5: delta_f = sat32((int64_t)u >> 5).
map_delta_f_noshift(u_q30) == sat32(I64(u_q30))

map_delta_f(u_q30) == sat32(Shr5(u_q30))

\* Step 6: f = (int32_t)(50 << 25) + delta_f, a plain int addition.
out_freq(delta_f_q25, ub) == AddI32(F50_Q25, delta_f_q25, ub)

\* Steps 1-6 of pll_q30_step: everything up to and including out_f.
step_core(s, x_q22, ub) ==
    LET sc    == sincos_from_theta_turn_q30(s.theta_q30)
        x_q30 == Shl8(x_q22, ub)
        m     == mul_q30(x_q30, sc.s)
        qerr  == Neg32(m, ub)
        p     == mul_q30(s.kp_q30, qerr)
        inc   == mul_q30(s.ki_q30, qerr)
        integ == pi_integrate(s.integrator_q30, inc)
        u     == pi_output(p, integ)
        delta == map_delta_f(u)
        f     == out_freq(delta, ub)
    IN  [sin |-> sc.s, cos |-> sc.c, x_q30 |-> x_q30, m |-> m,
         qerr |-> qerr, p |-> p, inc |-> inc, integ |-> integ, u |-> u,
         delta |-> delta, f |-> f]

\* Step 7, exact variant: phase_inc = (int32_t)((f << 5) / FS_HZ).
\* The quotient fits 32 bits for every 32-bit f.
phase_inc_shl4(f_q25) == DivFs(W(f_q25 \div 2048, (f_q25 % 2048) * 16))

phase_inc_shl6(f_q25) == DivFs(W(f_q25 \div 512, (f_q25 % 512) * 64))

phase_inc_exact(f_q25) == DivFs(Shl5(f_q25))

\* Step 7, reciprocal-multiply variant: inv_fs = round(2^32 / FS) = 107374,
\* phase_inc = (f * inv_fs) >> 27 on a 64-bit product (11-bit limbs of f).
INV_FS == 107374
phase_inc_recip(f_q25) ==
    LET f0 == f_q25 % 2048
        f1 == (f_q25 \div 2048) % 2048
        f2 == f_q25 \div 4194304
        t1 == f1 * INV_FS + ((f0 * INV_FS) \div 2048)
        t2 == f2 * INV_FS + (t1 \div 2048)
    IN  t2 \div 32

\* Step 8: theta = (theta + (uint32_t)phase_inc) & 0x3FFFFFFF.
theta_next_nomask(theta_q30, phase_inc_q30) == theta_q30 + phase_inc_q30

theta_next(theta_q30, phase_inc_q30) ==
    (theta_q30 + (phase_inc_q30 % (THETA_MASK + 1))) % (THETA_MASK + 1)

step_result(s, c, phase_inc_q30) ==
    [kp_q30 |-> s.kp_q30, ki_q30 |-> s.ki_q30,
     theta_q30 |-> theta_next(s.theta_q30, phase_inc_q30),
     integrator_q30 |-> c.integ,
     sin_q30 |-> c.sin, cos_q30 |-> c.cos,
     out_f_q25 |-> c.f, delta_f_q25 |-> c.delta]

\* The state left by pll_q30_step(st, x_q22).
pll_q30_step_state(s, x_q22, ub) ==
    LET c == step_core(s, x_q22, ub)
    IN  step_result(s, c, phase_inc_exact(c.f))

\* The state left by the reciprocal-multiply variant of the step.
pll_q30_step_recip_state(s, x_q22, ub) ==
    LET c == step_core(s, x_q22, ub)
    IN  step_result(s, c, phase_inc_recip(c.f))

\* The sample pll_q30_step_hdl_io hands to pll_q30_step.
hdl_io_sample(x_q22, ub) == Shl8(x_q22, ub)

\* Record of one call of pll_q30_step on state s with argument xs
\* (x is the argument of the outermost call).
call_record(op, s, x, xs, ub) ==
    LET c == step_core(s, xs, ub)
    IN  [op |-> op, x |-> x, xs |-> xs, x_q30 |-> c.x_q30, m |-> c.m,
         qerr |-> c.qerr, p |-> c.p, inc |-> c.inc, u |-> c.u,
         phase_inc |-> phase_inc_exact(c.f),
         theta0 |-> s.theta_q30, int0 |-> s.integrator_q30,
         kp |-> s.kp_q30, ki |-> s.ki_q30,
         ret |-> IF op = "hdl_io" THEN c.f ELSE 0,
         dirty |-> FALSE]

\* Samples the source may deliver at call number n after an init.
Inputs(n) == IF n < quiet THEN {0} ELSE Samples

Init ==
    /\ st \in Garbage
    /\ rc = st
    /\ inited = FALSE
    /\ nsteps = 0
    /\ quiet \in QuietLens
    /\ tr = NoCall
    /\ hist = [zrun |-> FALSE, samef |-> FALSE]

\* void pll_q30_init(pll_q30_state_t *st, int32_t kp_q30, int32_t ki_q30)
pll_q30_init(stp, kp_q30, ki_q30) ==
    IF stp = "NULL"
    THEN UNCHANGED vars
    ELSE /\ st' = init_state(st, kp_q30, ki_q30)
         /\ rc' = init_state(rc, kp_q30, ki_q30)
         /\ inited' = TRUE
         /\ nsteps' = 0
         /\ tr' = [NoCall EXCEPT !.op = "init", !.kp = kp_q30, !.ki = ki_q30,
                      !.dirty = (inited /\ nsteps > 0 /\ st.theta_q30 # 0
                                 /\ st.integrator_q30 # 0
                                 /\ st.out_f_q25 # F50_Q25)]
         /\ hist' = [zrun |-> TRUE, samef |-> TRUE]
         /\ UNCHANGED quiet

\* The part common to both entry points: one pll_q30_step(st, xs).
do_step(op, x, xs, ub) ==
    /\ st' = pll_q30_step_state(st, xs, ub)
    /\ rc' = pll_q30_step_recip_state(rc, xs, ub)
    /\ nsteps' = nsteps + 1
    /\ tr' = call_record(op, st, x, xs, ub)
    /\ hist' = [zrun  |-> hist.zrun /\ x = 0,
                samef |-> hist.samef /\ st'.out_f_q25 = rc'.out_f_q25]
    /\ UNCHANGED <<inited, quiet>>

\* void pll_q30_step(pll_q30_state_t *st, int32_t x_q22)
pll_q30_step(x_q22, ub) ==
    /\ inited
    /\ nsteps < quiet + Free
    /\ x_q22 \in Inputs(nsteps)
    /\ do_step("step", x_q22, x_q22, ub)

\* int32_t pll_q30_step_hdl_io(pll_q30_state_t *st, int32_t x_q22)
pll_q30_step_hdl_io(x_q22, ub) ==
    /\ inited
    /\ nsteps < quiet + Free
    /\ x_q22 \in Inputs(nsteps)
    /\ do_step("hdl_io", x_q22, hdl_io_sample(x_q22, ub), ub)

Next ==
    \/ \E stp \in {"NULL", "st"}, g \in GainPairs :
            pll_q30_init(stp, g[1], g[2])
    \/ \E x \in Samples, ub \in UBModes : pll_q30_step(x, ub)
    \/ \E x \in Samples, ub \in UBModes : pll_q30_step_hdl_io(x, ub)

Spec == Init /\ [][Next]_vars

\* ================================================================ claims
IsStep == tr.op \in {"step", "hdl_io"}

\* Clamp of the exact sum a + b of two 32-bit values into the int32 range.
ClampSum(a, b) ==
    IF b >= 0
    THEN IF a > INT32_MAX - b THEN INT32_MAX ELSE a + b
    ELSE IF a < INT32_MIN - b THEN INT32_MIN ELSE a + b

\* Distance of two phases modulo one turn (2^30).
Dist(a, b) ==
    LET d == (a - b) % 1073741824
    IN  IF d <= 536870912 THEN d ELSE 1073741824 - d

\* C1: right after pll_q30_init(st, kp, ki) on a non-null state, whatever
\* the state held before, theta = 0, integrator = 0, delta_f = 0,
\* out_f = 50 << 25 and the gains are the arguments.
C1_InitResets ==
    tr.op = "init" =>
        /\ st.theta_q30 = 0
        /\ st.integrator_q30 = 0
        /\ st.delta_f_q25 = 0
        /\ st.out_f_q25 = 50 * 33554432
        /\ st.kp_q30 = tr.kp
        /\ st.ki_q30 = tr.ki

\* An init has just run on a state that earlier steps had moved away from
\* the reset values.
C1_Witness == tr.op = "init" /\ tr.dirty

\* C2: once initialised, theta_q30 stays in [0, 2^30).
C2_ThetaInRange ==
    inited => (st.theta_q30 >= 0 /\ st.theta_q30 < 1073741824)

\* A step whose phase sum passed 2^30 and was masked back.
C2_Witness == IsStep /\ st.theta_q30 < tr.theta0

\* C3: while every sample since init has been 0, each step leaves
\* out_f = 50 << 25, integrator = 0, delta_f = 0 and advances theta by
\* 1342177 modulo 2^30.
C3_ZeroInputFreeRuns ==
    (IsStep /\ hist.zrun) =>
        /\ st.out_f_q25 = 50 * 33554432
        /\ st.integrator_q30 = 0
        /\ st.delta_f_q25 = 0
        /\ tr.phase_inc = 1342177
        /\ st.theta_q30 = (tr.theta0 + 1342177) % 1073741824
        /\ st.theta_q30 = (nsteps * 1342177) % 1073741824

\* More than 800 zero-input steps: theta has gone once around the turn.
C3_Witness ==
    IsStep /\ hist.zrun /\ nsteps > 800 /\ st.theta_q30 < tr.theta0

\* C4: the Q22 -> Q2.30 rescale inside pll_q30_step saturates on overflow
\* and is exactly x * 256 otherwise.
C4_ShiftSaturates ==
    IsStep =>
        tr.x_q30 = (IF tr.xs >= 8388608 THEN INT32_MAX
                    ELSE IF tr.xs < -8388608 THEN INT32_MIN
                    ELSE tr.xs * 256)

\* C5: pll_q30_step_hdl_io(st, x) leaves the state pll_q30_step(st, x)
\* leaves from the same starting state and returns the new out_f_q25.
C5_HdlIoSameAsStep ==
    [][tr'.op = "hdl_io" =>
          \E ub \in UBModes :
              /\ st' = pll_q30_step_state(st, tr'.x, ub)
              /\ tr'.ret = st'.out_f_q25]_vars

\* C6: no result inside one step wraps: qerr is -m or its clamp, the
\* products are the saturated products, the sums are the clamped exact sums,
\* delta_f is u >> 5 and out_f is 50 Hz + delta_f without overflow.
C6_NoWrapInStep ==
    IsStep =>
        /\ tr.qerr = (IF tr.m = INT32_MIN THEN INT32_MAX ELSE -tr.m)
        /\ tr.p = mul_q30(tr.kp, tr.qerr)
        /\ tr.inc = mul_q30(tr.ki, tr.qerr)
        /\ st.integrator_q30 = ClampSum(tr.int0, tr.inc)
        /\ tr.u = ClampSum(tr.p, st.integrator_q30)
        /\ st.delta_f_q25 = tr.u \div 32
        /\ st.out_f_q25 = 50 * 33554432 + st.delta_f_q25

\* C7 (as stated): after the k-th step, k in 1..1024, the phases of the
\* exact-division run and of the reciprocal-multiply run are at most 3*k
\* apart modulo 2^30.
C7_DivergenceBound ==
    (inited /\ nsteps >= 1 /\ nsteps <= 1024) =>
        Dist(st.theta_q30, rc.theta_q30) <= 3 * nsteps

\* C7 (amended): the 3*k bound holds as long as the two runs have produced
\* the same out_f_q25 after every step so far.
C7_DivergenceBoundSameF ==
    (inited /\ nsteps >= 1 /\ nsteps <= 1024 /\ hist.samef) =>
        Dist(st.theta_q30, rc.theta_q30) <= 3 * nsteps

\* Both runs agree on out_f after a non-zero sample moved it off 50 Hz,
\* and their phases have drifted apart.
C7_Witness ==
    /\ inited /\ hist.samef /\ ~hist.zrun
    /\ st.out_f_q25 # 50 * 33554432
    /\ Dist(st.theta_q30, rc.theta_q30) > 2 * nsteps

\* C8: after a step, sin and cos are the table entries at idx and at
\* (idx + 256) mod 1024 for idx = (theta before the step) >> 20, and the
\* cosine equals the sine looked up a quarter turn later.
C8_LutQuarterTurn ==
    IsStep =>
        LET idx == tr.theta0 \div 1048576
        IN  /\ st.sin_q30 = sine_q230[idx + 1]
            /\ st.cos_q30 = sine_q230[((idx + 256) % 1024) + 1]
            /\ st.cos_q30 = sincos_from_theta_turn_q30(
                                (tr.theta0 + 268435456) % 1073741824).s

\* A step taken in the last quarter of the turn, where idx + 256 wraps.
C8_Witness == IsStep /\ tr.theta0 \div 1048576 >= 768

\* C9: a step sets integrator to clamp(old integrator + mul_q30(ki, qerr)),
\* so a pinned integrator stays pinned unless the increment has the
\* opposite sign, and leaves kp and ki alone.
C9_IntegratorAccumulates ==
    IsStep =>
        /\ st.integrator_q30 = ClampSum(tr.int0, mul_q30(tr.ki, tr.qerr))
        /\ (tr.int0 = INT32_MAX /\ tr.inc >= 0
                => st.integrator_q30 = INT32_MAX)
        /\ (tr.int0 = INT32_MIN /\ tr.inc <= 0
                => st.integrator_q30 = INT32_MIN)
        /\ st.kp_q30 = tr.kp
        /\ st.ki_q30 = tr.ki

\* A step taken with the integrator already pinned at INT32_MAX and a
\* further positive increment.
C9_Witness ==
    /\ IsStep /\ tr.int0 = INT32_MAX /\ tr.inc > 0
    /\ st.integrator_q30 = INT32_MAX

\* C10: delta_f stays in [-2^26, 2^26 - 1] and out_f in
\* [48 << 25, (52 << 25) - 1]; the addition of 50 Hz never overflows, the
\* clamp on delta_f never acts, and the phase increment is positive.
C10_DeltaFBounded ==
    inited =>
        /\ st.delta_f_q25 >= -67108864
        /\ st.delta_f_q25 <= 67108863
        /\ st.out_f_q25 = 50 * 33554432 + st.delta_f_q25
        /\ st.out_f_q25 >= 48 * 33554432
        /\ st.out_f_q25 <= 52 * 33554432 - 1
        /\ IsStep =>
              /\ st.delta_f_q25 = tr.u \div 32
              /\ tr.phase_inc > 0
              /\ tr.phase_inc < 1073741824
              /\ st.theta_q30 = (tr.theta0 + tr.phase_inc) % 1073741824
              /\ st.theta_q30 # tr.theta0

\* The controller output saturated, putting delta_f at its largest value.
C10_Witness ==
    IsStep /\ tr.u = INT32_MAX /\ st.delta_f_q25 = 67108863

====
